---- MODULE Spec2Model ----
(***************************************************************************)
(* Texas Hold'em odds calculator (poker-odds-calculator.js): the card      *)
(* codec, the 7-card hand evaluator, the hand comparison and the Monte     *)
(* Carlo loop of calculatePokerOdds.                                       *)
(*                                                                         *)
(* Conventions.  A card string "As" is the pair <<"A", "s">> of its two    *)
(* characters.  An encoded card is an integer in 0..51; the JavaScript     *)
(* value NaN (what suit * 13 + rank gives when a table lookup is           *)
(* undefined) is the integer NaN below, outside 0..51.  JavaScript arrays  *)
(* are sequences; At(s, k) reads the 0-based index k.  Percentages are     *)
(* exact rationals <<p, q>> (p / q percent) and, once rounded by           *)
(* toFixed(2), integers counting hundredths of a percent.                  *)
(***************************************************************************)
EXTENDS Integers, Sequences, FiniteSets, TLC

VARIABLES
    \* ---- calculatePokerOdds: arguments
    pc, myCards, communityCards, opponentCount, simulations,
    \* ---- calculatePokerOdds: locals that live across trials
    myCardsEncoded, communityCardsEncoded, remainingDeck, wins, ties, i,
    \* ---- calculatePokerOdds: locals of one trial
    shuffledDeck, opponentsCards, finalCommunityCards, myFinalHand,
    myBestHand, opponentBestHands, isWinner, hasTie,
    \* ---- calculatePokerOdds: outcome of the call
    result, error,
    \* ---- number of shuffleArray calls made so far (history)
    shuffles,
    \* ---- isStraight applied to the ranks of 7 cards
    ranks, straight,
    \* ---- evaluateHand / compareHands applied to players at one table
    board, seats

callVars  == <<pc, myCards, communityCards, opponentCount, simulations,
               myCardsEncoded, communityCardsEncoded, remainingDeck, wins,
               ties, i, shuffledDeck, opponentsCards, finalCommunityCards,
               myFinalHand, myBestHand, opponentBestHands, isWinner, hasTie,
               result, error, shuffles>>
rankVars  == <<ranks, straight>>
tableVars == <<board, seats>>
vars      == <<callVars, rankVars, tableVars>>

-----------------------------------------------------------------------------
(* Program constants *)

HIGH_CARD       == 0
ONE_PAIR        == 1
TWO_PAIR        == 2
THREE_OF_A_KIND == 3
STRAIGHT        == 4
FLUSH           == 5
FULL_HOUSE      == 6
FOUR_OF_A_KIND  == 7
STRAIGHT_FLUSH  == 8
ROYAL_FLUSH     == 9

NumRanks    == 13
NumSuits    == 4
DeckSize    == 52
HandSize    == 7
BoardSize   == 5
HoleSize    == 2
MinOpponents == 1
MaxOpponents == 8

\* suit * 13 + rank with an undefined suit or rank
NaN == -1

SUIT_MAP == ("s" :> 0) @@ ("h" :> 1) @@ ("d" :> 2) @@ ("c" :> 3)

RANK_MAP == ("2" :> 0) @@ ("3" :> 1) @@ ("4" :> 2) @@ ("5" :> 3) @@
            ("6" :> 4) @@ ("7" :> 5) @@ ("8" :> 6) @@ ("9" :> 7) @@
            ("T" :> 8) @@ ("J" :> 9) @@ ("Q" :> 10) @@ ("K" :> 11) @@
            ("A" :> 12)

-----------------------------------------------------------------------------
(* Array helpers *)

At(s, k) == s[k + 1]

Elems(s) == {s[k] : k \in 1..Len(s)}

includes(s, x) == \E k \in 1..Len(s) : s[k] = x

Occurrences(s, x) == Cardinality({k \in 1..Len(s) : s[k] = x})

\* s.slice(from, to): the elements at 0-based indices from .. to-1 that exist
slice(s, from, to) ==
    LET hi == IF to < Len(s) THEN to ELSE Len(s)
    IN  IF from >= hi THEN <<>> ELSE SubSeq(s, from + 1, hi)

\* The members of a set of integers, ascending
SortAsc(S) ==
    [k \in 1..Cardinality(S) |->
        CHOOSE x \in S : Cardinality({y \in S : y < x}) = k - 1]

\* Every arrangement of the members of S in a sequence
Arrangements(S) ==
    {s \in [1..Cardinality(S) -> S] : \A a, b \in 1..Cardinality(S) :
                                          a # b => s[a] # s[b]}

-----------------------------------------------------------------------------
(* Card codec *)

Card(rankStr, suitStr) == <<rankStr, suitStr>>

parseCard(cardStr) ==
    LET rankStr == cardStr[1]
        suitStr == cardStr[2]
    IN  IF rankStr \in DOMAIN RANK_MAP /\ suitStr \in DOMAIN SUIT_MAP
        THEN SUIT_MAP[suitStr] * 13 + RANK_MAP[rankStr]
        ELSE NaN

parseCards(cardStrs) == [k \in 1..Len(cardStrs) |-> parseCard(cardStrs[k])]

getRank(card) == IF card = NaN THEN NaN ELSE card % 13

getSuit(card) == IF card = NaN THEN NaN ELSE card \div 13

\* The Map of countRanks: each rank present (NaN is one key) to its count
countRanks(cards) ==
    [r \in {getRank(cards[k]) : k \in 1..Len(cards)} |->
        Cardinality({k \in 1..Len(cards) : getRank(cards[k]) = r})]

countSuits(cards) ==
    [s \in {getSuit(cards[k]) : k \in 1..Len(cards)} |->
        Cardinality({k \in 1..Len(cards) : getSuit(cards[k]) = s})]

-----------------------------------------------------------------------------
(* Hand evaluator *)

\* The regular run test of isStraight on the sorted distinct ranks
HasRun(uniqueRanks) ==
    \E a \in 0..(Len(uniqueRanks) - 5) :
        \A j \in 1..4 : At(uniqueRanks, a + j) = At(uniqueRanks, a) + j

WheelPresent(rs) ==
    /\ includes(rs, 12)
    /\ includes(rs, 0)
    /\ includes(rs, 1)
    /\ includes(rs, 2)
    /\ includes(rs, 3)

isStraight_ShortLoop(rs) ==
    LET uniqueRanks == SortAsc(Elems(rs))
    IN  \/ WheelPresent(uniqueRanks)
        \/ \E a \in 0..(Len(uniqueRanks) - 6) :
              \A j \in 1..4 : At(uniqueRanks, a + j) = At(uniqueRanks, a) + j

isStraight(rs) ==
    LET uniqueRanks == SortAsc(Elems(rs))
    IN  WheelPresent(uniqueRanks) \/ HasRun(uniqueRanks)

isFlush(cards) ==
    LET suitCounts == countSuits(cards)
    IN  \E s \in DOMAIN suitCounts : suitCounts[s] >= 5

\* Array.from(rankCounts.values()).sort((a, b) => b - a)
sortedCountsOf(cards) ==
    LET rankCounts == countRanks(cards)
        keys       == DOMAIN rankCounts
        Before(a, b) == \/ rankCounts[a] > rankCounts[b]
                        \/ rankCounts[a] = rankCounts[b] /\ a > b
    IN  [k \in 1..Cardinality(keys) |->
            rankCounts[CHOOSE r \in keys :
                Cardinality({q \in keys : Before(q, r)}) = k - 1]]

\* sortedCounts[k], where a missing element equals no number
CountAt(sortedCounts, k) ==
    IF k + 1 <= Len(sortedCounts) THEN sortedCounts[k + 1] ELSE 0

\* The if / else-if ladder of evaluateHand
handRankOf(rs, flush, isStr, sortedCounts) ==
    IF flush /\ isStr
    THEN IF /\ includes(rs, 8)
            /\ includes(rs, 9)
            /\ includes(rs, 10)
            /\ includes(rs, 11)
            /\ includes(rs, 12)
         THEN ROYAL_FLUSH
         ELSE STRAIGHT_FLUSH
    ELSE IF CountAt(sortedCounts, 0) = 4 THEN FOUR_OF_A_KIND
    ELSE IF CountAt(sortedCounts, 0) = 3 /\ CountAt(sortedCounts, 1) = 2
         THEN FULL_HOUSE
    ELSE IF flush THEN FLUSH
    ELSE IF isStr THEN STRAIGHT
    ELSE IF CountAt(sortedCounts, 0) = 3 THEN THREE_OF_A_KIND
    ELSE IF CountAt(sortedCounts, 0) = 2 /\ CountAt(sortedCounts, 1) = 2
         THEN TWO_PAIR
    ELSE IF CountAt(sortedCounts, 0) = 2 THEN ONE_PAIR
    ELSE HIGH_CARD

\* The ranks by count descending, then by rank descending
keyRanksOf(cards) ==
    LET rankCounts == countRanks(cards)
        keys       == DOMAIN rankCounts
        Before(a, b) == \/ rankCounts[a] > rankCounts[b]
                        \/ rankCounts[a] = rankCounts[b] /\ a > b
    IN  [k \in 1..Cardinality(keys) |->
            CHOOSE r \in keys :
                Cardinality({q \in keys : Before(q, r)}) = k - 1]

\* evaluateHand on cards that are all numbers
evaluateHand(cards) ==
    LET rs == [k \in 1..Len(cards) |-> getRank(cards[k])]
    IN  [rank     |-> handRankOf(rs, isFlush(cards), isStraight(rs),
                                 sortedCountsOf(cards)),
         keyRanks |-> keyRanksOf(cards)]

(***************************************************************************)
(* evaluateHand on cards some of which are NaN.  Both sorts then run with  *)
(* a comparator that answers NaN for a pair holding the NaN rank, which    *)
(* is not a consistent comparator: the order Array.prototype.sort leaves   *)
(* is implementation-defined.  The outcomes are every order of the keys,   *)
(* and for the run test every answer some order of the distinct ranks      *)
(* gives: true needs a real run of numbers, false is always possible.      *)
(* The wheel test (includes) and the counts (numbers) do not depend on     *)
(* the order.                                                              *)
(***************************************************************************)
straightOutcomes(rs) ==
    LET numbers == Elems(rs) \ {NaN}
    IN  IF WheelPresent(rs) THEN {TRUE}
        ELSE IF HasRun(SortAsc(numbers)) THEN {TRUE, FALSE}
        ELSE {FALSE}

evaluateHandOutcomes(cards) ==
    LET rs == [k \in 1..Len(cards) |-> getRank(cards[k])]
    IN  IF ~includes(cards, NaN)
        THEN {evaluateHand(cards)}
        ELSE {[rank     |-> handRankOf(rs, isFlush(cards), st,
                                       sortedCountsOf(cards)),
               keyRanks |-> ks] :
                  st \in straightOutcomes(rs),
                  ks \in Arrangements(DOMAIN countRanks(cards))}

-----------------------------------------------------------------------------
(* Hand comparison *)

\* x > y in JavaScript where y may be undefined (absent) and either may be NaN
KeyGreater(k1, k2, n) ==
    /\ n + 1 <= Len(k2)
    /\ At(k1, n) # NaN
    /\ At(k2, n) # NaN
    /\ At(k1, n) > At(k2, n)

KeyLess(k1, k2, n) ==
    /\ n + 1 <= Len(k2)
    /\ At(k1, n) # NaN
    /\ At(k2, n) # NaN
    /\ At(k1, n) < At(k2, n)

\* for (let i = 0; i < hand1.keyRanks.length; i++) from index n on
RECURSIVE compareKeys(_, _, _)
compareKeys(k1, k2, n) ==
    IF n >= Len(k1) THEN 0
    ELSE IF KeyGreater(k1, k2, n) THEN 1
    ELSE IF KeyLess(k1, k2, n) THEN -1
    ELSE compareKeys(k1, k2, n + 1)

compareHands(hand1, hand2) ==
    IF hand1.rank > hand2.rank THEN 1
    ELSE IF hand1.rank < hand2.rank THEN -1
    ELSE compareKeys(hand1.keyRanks, hand2.keyRanks, 0)

-----------------------------------------------------------------------------
(* Shuffle *)

\* Bounds of the model
FreeDraws      == 3
MaxSimulations == 3
MaxSeats       == 3
TableRanks     == 5

(***************************************************************************)
(* One call of shuffleArray consumes one Math.random() value per loop      *)
(* step k = length-1 .. 1 and turns it into j = floor(random * (k + 1)),   *)
(* any index in 0..k.  A random stream is bounded here: the draws of the   *)
(* last FreeDraws steps (k <= FreeDraws) are free in 0..k, every earlier   *)
(* draw is the largest value (j = k, the step swaps an element with        *)
(* itself).                                                                *)
(***************************************************************************)
RandomStreams ==
    {d \in [1..FreeDraws -> 0..FreeDraws] : \A k \in 1..FreeDraws : d[k] <= k}

Draw(d, k) == IF k <= FreeDraws THEN d[k] ELSE k

\* [newArray[a], newArray[b]] = [newArray[b], newArray[a]]
Swap(arr, a, b) ==
    IF a = b THEN arr
    ELSE [arr EXCEPT ![a + 1] = arr[b + 1], ![b + 1] = arr[a + 1]]

\* for (let i = k; i > 0; i--) { j = ...; swap(i, j) }
RECURSIVE shuffleSteps(_, _, _)
shuffleSteps(newArray, k, d) ==
    IF k <= 0 THEN newArray
    ELSE shuffleSteps(Swap(newArray, k, Draw(d, k)), k - 1, d)

shuffleArray_InPlace(array, d) ==
    [array    |-> shuffleSteps(array, Len(array) - 1, d),
     newArray |-> shuffleSteps(array, Len(array) - 1, d)]

\* What the call leaves in its argument (array) and what it returns (newArray)
shuffleArray(array, d) ==
    [array    |-> array,
     newArray |-> shuffleSteps(array, Len(array) - 1, d)]

-----------------------------------------------------------------------------
(* calculatePokerOdds *)

NoHand == [rank |-> HIGH_CARD, keyRanks |-> <<>>]

validate_WideOpponents(mine, community, opponents) ==
    IF Len(mine) # 2 THEN "hole cards must be 2"
    ELSE IF Len(community) < 0 \/ Len(community) > 5
         THEN "community cards must be 0-5"
    ELSE IF opponents < 1 \/ opponents > 9
         THEN "opponent count must be 1-8"
    ELSE ""

\* Step 2: the message of the error thrown, "" when none is
validate(mine, community, opponents) ==
    IF Len(mine) # 2 THEN "hole cards must be 2"
    ELSE IF Len(community) < 0 \/ Len(community) > 5
         THEN "community cards must be 0-5"
    ELSE IF opponents < 1 \/ opponents > 8
         THEN "opponent count must be 1-8"
    ELSE ""

fullDeck == [k \in 1..52 |-> k - 1]

\* Step 3: fullDeck.filter(card => !knownCards.includes(card))
remainingDeckOf(mine, community) ==
    LET knownCards == mine \o community
        Unknown(card) == ~includes(knownCards, card)
    IN  SelectSeq(fullDeck, Unknown)

\* opponentsCards: pair n (0-based) holds shuffledDeck[2n], shuffledDeck[2n+1]
opponentsCardsOf(deck, opponents) ==
    [n \in 1..opponents |-> <<At(deck, 2 * (n - 1)), At(deck, 2 * (n - 1) + 1)>>]

simulatedCommunityCards_FromTop(deck, cardIndex, needed) ==
    slice(deck, 0, needed)

simulatedCommunityCards(deck, cardIndex, needed) ==
    slice(deck, cardIndex, cardIndex + needed)

\* One evaluation per hand, each among the outcomes of evaluateHand on it
RECURSIVE evaluations(_)
evaluations(hands) ==
    IF hands = <<>> THEN {<<>>}
    ELSE {<<e>> \o rest : e \in evaluateHandOutcomes(Head(hands)),
                          rest \in evaluations(Tail(hands))}

compareLoop_KeepWinner(mine, others, n, winner, tie) ==
    [isWinner |-> \A m \in 1..Len(others) :
                     compareHands(mine, others[m]) >= 0 \/
                     \E q \in 1..(m - 1) : compareHands(mine, others[q]) = 0,
     hasTie   |-> \E m \in 1..Len(others) : compareHands(mine, others[m]) = 0]

\* The loop over opponentsCards from opponent n on, with its two flags
RECURSIVE compareLoop(_, _, _, _, _)
compareLoop(mine, others, n, winner, tie) ==
    IF n > Len(others) THEN [isWinner |-> winner, hasTie |-> tie]
    ELSE LET comparison == compareHands(mine, others[n])
         IN  IF comparison < 0
             THEN [isWinner |-> FALSE, hasTie |-> tie]
             ELSE compareLoop(mine, others, n + 1, winner,
                              tie \/ comparison = 0)

toFixed2_Ceil(x) == (100 * x[1] + x[2] - 1) \div x[2]

(***************************************************************************)
(* parseFloat(x.toFixed(2)) in hundredths, x = x[1] / x[2] >= 0: the       *)
(* nearest hundredth, the larger one when two are equally near.  The       *)
(* double x differs from the exact quotient by less than 1e-13, which      *)
(* moves the result only when the quotient is within that of a half        *)
(* hundredth; for 100*k/n that needs 64 to divide n.                       *)
(***************************************************************************)
toFixed2(x) == (2 * 100 * x[1] + x[2]) \div (2 * x[2])

\* Step 6 and 7
resultOf(w, t, n) ==
    LET winPercentage  == <<100 * w, n>>
        tiePercentage  == <<100 * t, n>>
        losePercentage == <<100 * n - 100 * w - 100 * t, n>>
    IN  [win  |-> toFixed2(winPercentage),
         tie  |-> toFixed2(tiePercentage),
         lose |-> toFixed2(losePercentage),
         simulations |-> n]

\* ---- the calls made

HoleInputs ==
    { <<Card("3", "h"), Card("4", "h")>>,
      <<Card("3", "h")>>,
      <<Card("3", "h"), Card("4", "h"), Card("5", "h")>> }

CommunityInputs ==
    { <<>>,
      <<Card("A", "h"), Card("K", "d"), Card("Q", "c")>>,
      <<Card("A", "h"), Card("K", "d"), Card("Q", "c"), Card("J", "h"),
        Card("9", "d")>>,
      <<Card("A", "h"), Card("K", "d"), Card("Q", "c"), Card("J", "h"),
        Card("9", "d"), Card("8", "c")>> }

OpponentInputs == {0, 1, 2, 8, 9}

ShapeCalls ==
    [myCards : HoleInputs, communityCards : CommunityInputs,
     opponentCount : OpponentInputs, simulations : 1..MaxSimulations]

\* Calls with a card string whose rank or suit character is in no table
BadCardCalls ==
    { [myCards |-> <<Card("1", "h"), Card("4", "h")>>,
       communityCards |-> <<Card("A", "h"), Card("A", "d"), Card("A", "c"),
                            Card("A", "s"), Card("K", "h")>>,
       opponentCount |-> 1, simulations |-> 1],
      [myCards |-> <<Card("3", "h"), Card("3", "d")>>,
       communityCards |-> <<Card("A", "h"), Card("A", "d"), Card("A", "c"),
                            Card("A", "s"), Card("K", "x")>>,
       opponentCount |-> 1, simulations |-> 1] }

\* A call that names the same card twice
DuplicateCalls ==
    { [myCards |-> <<Card("3", "h"), Card("3", "h")>>,
       communityCards |-> <<Card("A", "h"), Card("K", "d"), Card("Q", "c")>>,
       opponentCount |-> 2, simulations |-> 1] }

Calls == ShapeCalls \cup BadCardCalls \cup DuplicateCalls

CallInit ==
    /\ pc = "idle"
    /\ myCards = <<>>
    /\ communityCards = <<>>
    /\ opponentCount = 0
    /\ simulations = 0
    /\ myCardsEncoded = <<>>
    /\ communityCardsEncoded = <<>>
    /\ remainingDeck = <<>>
    /\ wins = 0
    /\ ties = 0
    /\ i = 0
    /\ shuffledDeck = <<>>
    /\ opponentsCards = <<>>
    /\ finalCommunityCards = <<>>
    /\ myFinalHand = <<>>
    /\ myBestHand = NoHand
    /\ opponentBestHands = <<>>
    /\ isWinner = TRUE
    /\ hasTie = FALSE
    /\ result = <<>>
    /\ error = ""
    /\ shuffles = 0

trialLocals == <<shuffledDeck, opponentsCards, finalCommunityCards,
                 myFinalHand, myBestHand, opponentBestHands, isWinner, hasTie>>

\* Steps 1 to 4: parse, validate, build the remaining deck, zero the counters
Call ==
    /\ pc = "idle"
    /\ \E c \in Calls :
         LET mine      == parseCards(c.myCards)
             community == parseCards(c.communityCards)
             message   == validate(mine, community, c.opponentCount)
         IN  /\ myCards' = c.myCards
             /\ communityCards' = c.communityCards
             /\ opponentCount' = c.opponentCount
             /\ simulations' = c.simulations
             /\ myCardsEncoded' = mine
             /\ communityCardsEncoded' = community
             /\ error' = message
             /\ IF message # ""
                THEN /\ pc' = "error"
                     /\ remainingDeck' = <<>>
                ELSE /\ pc' = "loop"
                     /\ remainingDeck' = remainingDeckOf(mine, community)
    /\ wins' = 0
    /\ ties' = 0
    /\ i' = 0
    /\ UNCHANGED <<trialLocals, result, shuffles, rankVars, tableVars>>

\* Step 5, first half: shuffle, deal, evaluate the hands of the trial
Deal ==
    /\ pc = "loop"
    /\ i < simulations
    /\ \E d \in RandomStreams :
         LET shuffled  == shuffleArray(remainingDeck, d)
             deck      == shuffled.newArray
             dealt     == opponentsCardsOf(deck, opponentCount)
             cardIndex == 2 * opponentCount
             remainingCommunityCardsNeeded == 5 - Len(communityCardsEncoded)
             final     == communityCardsEncoded \o
                          simulatedCommunityCards(deck, cardIndex,
                              remainingCommunityCardsNeeded)
             mine      == myCardsEncoded \o final
             theirs    == [n \in 1..Len(dealt) |-> dealt[n] \o final]
         IN  /\ remainingDeck' = shuffled.array
             /\ shuffledDeck' = deck
             /\ opponentsCards' = dealt
             /\ finalCommunityCards' = final
             /\ myFinalHand' = mine
             /\ myBestHand' \in evaluateHandOutcomes(mine)
             /\ opponentBestHands' \in evaluations(theirs)
    /\ isWinner' = TRUE
    /\ hasTie' = FALSE
    /\ shuffles' = shuffles + 1
    /\ pc' = "dealt"
    /\ UNCHANGED <<myCards, communityCards, opponentCount, simulations,
                   myCardsEncoded, communityCardsEncoded, wins, ties, i,
                   result, error, rankVars, tableVars>>

\* Step 5, the comparison with every opponent
Compare ==
    /\ pc = "dealt"
    /\ LET flags == compareLoop(myBestHand, opponentBestHands, 1, isWinner,
                                hasTie)
       IN  /\ isWinner' = flags.isWinner
           /\ hasTie' = flags.hasTie
    /\ pc' = "compared"
    /\ UNCHANGED <<myCards, communityCards, opponentCount, simulations,
                   myCardsEncoded, communityCardsEncoded, remainingDeck, wins,
                   ties, i, shuffledDeck, opponentsCards, finalCommunityCards,
                   myFinalHand, myBestHand, opponentBestHands, result, error,
                   shuffles, rankVars, tableVars>>

\* Step 5, the end of the trial: the counters, i++, the trial's locals die
Update ==
    /\ pc = "compared"
    /\ wins' = IF isWinner /\ ~hasTie THEN wins + 1 ELSE wins
    /\ ties' = IF isWinner /\ hasTie THEN ties + 1 ELSE ties
    /\ i' = i + 1
    /\ shuffledDeck' = <<>>
    /\ opponentsCards' = <<>>
    /\ finalCommunityCards' = <<>>
    /\ myFinalHand' = <<>>
    /\ myBestHand' = NoHand
    /\ opponentBestHands' = <<>>
    /\ isWinner' = TRUE
    /\ hasTie' = FALSE
    /\ pc' = "loop"
    /\ UNCHANGED <<myCards, communityCards, opponentCount, simulations,
                   myCardsEncoded, communityCardsEncoded, remainingDeck,
                   result, error, shuffles, rankVars, tableVars>>

\* Steps 6 and 7 once the loop has run simulations times
Return ==
    /\ pc = "loop"
    /\ ~(i < simulations)
    /\ result' = <<resultOf(wins, ties, simulations)>>
    /\ pc' = "done"
    /\ UNCHANGED <<myCards, communityCards, opponentCount, simulations,
                   myCardsEncoded, communityCardsEncoded, remainingDeck, wins,
                   ties, i, trialLocals, error, shuffles, rankVars, tableVars>>

RankIdle == ranks = <<>> /\ straight = <<>>

TableIdle == board = <<>> /\ seats = <<>>

Init == CallInit /\ RankIdle /\ TableIdle

Next == Call \/ Deal \/ Compare \/ Update \/ Return

Spec == Init /\ [][Next]_vars

-----------------------------------------------------------------------------
(* isStraight on the ranks of any 7 cards *)

\* The ranks of a hand are built in ascending order, at most one per suit
AddRank ==
    /\ straight = <<>>
    /\ Len(ranks) < HandSize
    /\ \E r \in 0..(NumRanks - 1) :
         /\ IF ranks = <<>> THEN TRUE ELSE r >= ranks[Len(ranks)]
         /\ Occurrences(ranks, r) < NumSuits
         /\ ranks' = Append(ranks, r)
    /\ UNCHANGED <<straight, callVars, tableVars>>

CheckStraight ==
    /\ straight = <<>>
    /\ Len(ranks) = HandSize
    /\ straight' = <<isStraight(ranks)>>
    /\ UNCHANGED <<ranks, callVars, tableVars>>

StraightNext == AddRank \/ CheckStraight

SpecStraight == Init /\ [][StraightNext]_vars

-----------------------------------------------------------------------------
(* evaluateHand and compareHands on the players of one table *)

\* The cards of the TableRanks highest ranks
TableDeck == {c \in 0..(DeckSize - 1) : getRank(c) >= NumRanks - TableRanks}

Boards ==
    { parseCards(<<Card("A", "s"), Card("A", "h"), Card("A", "d"),
                   Card("K", "s"), Card("Q", "s")>>),
      parseCards(<<Card("Q", "s"), Card("Q", "h"), Card("Q", "d"),
                   Card("Q", "c"), Card("K", "s")>>),
      parseCards(<<Card("T", "s"), Card("J", "s"), Card("Q", "s"),
                   Card("K", "h"), Card("A", "d")>>) }

Held == UNION {Elems(seats[n].hole) : n \in 1..Len(seats)}

TableInit ==
    /\ CallInit
    /\ RankIdle
    /\ board \in Boards
    /\ seats = <<>>

\* One more player gets two unseen cards and is evaluated with the board
SeatPlayer ==
    /\ Len(seats) < MaxSeats
    /\ \E a, b \in TableDeck \ (Elems(board) \cup Held) :
         /\ a < b
         /\ seats' = Append(seats, [hole |-> <<a, b>>,
                                    hand |-> evaluateHand(<<a, b>> \o board)])
    /\ UNCHANGED <<board, callVars, rankVars>>

SpecTable == TableInit /\ [][SeatPlayer]_vars

-----------------------------------------------------------------------------
(* Reference definitions used by the properties *)

Distinct(s) == \A a, b \in 1..Len(s) : a # b => s[a] # s[b]

Max(S) == CHOOSE x \in S : \A y \in S : y <= x

RankChars == {"2", "3", "4", "5", "6", "7", "8", "9", "T", "J", "Q", "K", "A"}

SuitChars == {"s", "h", "d", "c"}

GoodCard(cardStr) == cardStr[1] \in RankChars /\ cardStr[2] \in SuitChars

HasBadCard ==
    \/ \E k \in 1..Len(myCards) : ~GoodCard(myCards[k])
    \/ \E k \in 1..Len(communityCards) : ~GoodCard(communityCards[k])

BadShape ==
    \/ Len(myCards) # HoleSize
    \/ Len(communityCards) > BoardSize
    \/ opponentCount < MinOpponents
    \/ opponentCount > MaxOpponents

\* 2 distinct hole cards, 0..5 distinct known community cards disjoint from
\* them, opponentCount in 1..8
ValidCall ==
    /\ pc # "idle"
    /\ ~BadShape
    /\ ~HasBadCard
    /\ Distinct(myCards \o communityCards)

\* The poker category of exactly five cards
CategoryOfFive(five) ==
    LET rks      == {five[k] % NumRanks : k \in 1..5}
        count(r) == Cardinality({k \in 1..5 : five[k] % NumRanks = r})
        counts   == {count(r) : r \in rks}
        oneSuit  == \A k \in 1..5 : five[k] \div NumRanks = five[1] \div NumRanks
        inRow    == /\ Cardinality(rks) = 5
                    /\ \/ Max(rks) - (CHOOSE x \in rks : \A y \in rks : x <= y) = 4
                       \/ rks = {12, 0, 1, 2, 3}
        pairs    == Cardinality({r \in rks : count(r) = 2})
    IN  IF oneSuit /\ inRow
        THEN IF rks = {8, 9, 10, 11, 12} THEN ROYAL_FLUSH ELSE STRAIGHT_FLUSH
        ELSE IF 4 \in counts THEN FOUR_OF_A_KIND
        ELSE IF 3 \in counts /\ 2 \in counts THEN FULL_HOUSE
        ELSE IF oneSuit THEN FLUSH
        ELSE IF inRow THEN STRAIGHT
        ELSE IF 3 \in counts THEN THREE_OF_A_KIND
        ELSE IF pairs = 2 THEN TWO_PAIR
        ELSE IF pairs = 1 THEN ONE_PAIR
        ELSE HIGH_CARD

\* The best category among the 21 five-card subsets of seven cards
BestCategory(seven) ==
    Max({CategoryOfFive([k \in 1..5 |-> seven[SortAsc(P)[k]]]) :
            P \in {Q \in SUBSET (1..HandSize) : Cardinality(Q) = 5}})

\* The standard tie-break of a four of a kind or a full house among 7 cards:
\* the rank of the quads and the best other rank; the rank of the trips and
\* the best other rank held at least twice
StandardKey(seven) ==
    LET rks      == {seven[k] % NumRanks : k \in 1..HandSize}
        count(r) == Cardinality({k \in 1..HandSize : seven[k] % NumRanks = r})
    IN  IF \E r \in rks : count(r) = 4
        THEN LET quad == CHOOSE r \in rks : count(r) = 4
             IN  <<quad, Max(rks \ {quad})>>
        ELSE LET trips == Max({r \in rks : count(r) >= 3})
             IN  <<trips, Max({r \in rks \ {trips} : count(r) >= 2})>>

StandardCompare(sevenA, sevenB) ==
    LET ka == StandardKey(sevenA)
        kb == StandardKey(sevenB)
    IN  IF ka[1] # kb[1] THEN (IF ka[1] > kb[1] THEN 1 ELSE -1)
        ELSE IF ka[2] # kb[2] THEN (IF ka[2] > kb[2] THEN 1 ELSE -1)
        ELSE 0

SeatCards(n) == seats[n].hole \o board

Versus(n) == compareHands(myBestHand, opponentBestHands[n])

Opponents == 1..Len(opponentBestHands)

Percentages == result[1].win + result[1].tie + result[1].lose

\* The remaining deck is the 52 cards minus the known ones, ascending, and a
\* trial's shuffled deck holds each of them once
DeckIntact ==
    pc \in {"loop", "dealt", "compared", "done"} =>
        /\ \A a \in 1..(Len(remainingDeck) - 1) :
              remainingDeck[a] < remainingDeck[a + 1]
        /\ Elems(remainingDeck) =
              (0..(DeckSize - 1)) \
                  (Elems(myCardsEncoded) \cup Elems(communityCardsEncoded))
        /\ pc \in {"dealt", "compared"} =>
              /\ Len(shuffledDeck) = Len(remainingDeck)
              /\ Elems(shuffledDeck) = Elems(remainingDeck)

\* A step of the trial loop leaves the deck and the encoded known cards alone
KnownCardsKept ==
    pc \in {"loop", "dealt", "compared"} =>
        /\ remainingDeck' = remainingDeck
        /\ myCardsEncoded' = myCardsEncoded
        /\ communityCardsEncoded' = communityCardsEncoded

-----------------------------------------------------------------------------
(* Properties *)

\* C1: for every 7 distinct cards the category evaluateHand returns is the
\* category of the best 5-card hand among the 21 five-card subsets.
C1_BestFiveCategory ==
    \A n \in 1..Len(seats) :
        seats[n].hand.rank = BestCategory(SeatCards(n))

\* C2: in every trial the win counter goes up by one iff the subject beats
\* every opponent, the tie counter goes up by one iff it loses to none and
\* ties with at least one, and neither changes iff it loses to some opponent,
\* whatever the order of the opponents.
C2_CounterUpdate ==
    [][pc = "compared" =>
         /\ (wins' = wins + 1) <=> (\A n \in Opponents : Versus(n) > 0)
         /\ (ties' = ties + 1) <=> /\ \A n \in Opponents : Versus(n) >= 0
                                   /\ \E n \in Opponents : Versus(n) = 0
         /\ (wins' = wins /\ ties' = ties) <=>
                (\E n \in Opponents : Versus(n) < 0)
         /\ wins' \in {wins, wins + 1}
         /\ ties' \in {ties, ties + 1}]_vars

\* C2 witness: a trial whose loop met a tie and then left on a later loss.
C2_TieThenLoss ==
    /\ pc = "compared"
    /\ hasTie
    /\ ~isWinner
    /\ \E m, n \in Opponents : m < n /\ Versus(m) = 0 /\ Versus(n) < 0

\* C3: a call with a hole-card list not of length 2, more than 5 community
\* cards or an opponent count outside 1..8 ends in an error with no shuffle,
\* no trial, no counter update and no result.
C3_ShapeRejectedFirst ==
    (pc # "idle" /\ BadShape) =>
        /\ pc = "error"
        /\ error # ""
        /\ shuffles = 0
        /\ i = 0
        /\ wins = 0
        /\ ties = 0
        /\ shuffledDeck = <<>>
        /\ result = <<>>

\* C3 witness: the call with 9 opponents and otherwise valid arguments
\* was rejected.
C3_NineOpponentsRejected ==
    /\ pc = "error"
    /\ opponentCount = MaxOpponents + 1
    /\ Len(myCards) = HoleSize
    /\ Len(communityCards) <= BoardSize

\* C4: a call with a card string whose rank or suit character is unknown
\* fails before any trial runs and returns no result.
C4_BadCardRejected ==
    (pc # "idle" /\ HasBadCard) =>
        /\ pc = "error"
        /\ shuffles = 0
        /\ result = <<>>

\* C5 as stated: the three returned percentages sum to exactly 100.00 and
\* each lies in [0, 100].
C5_SumExactly100 ==
    pc = "done" =>
        /\ Percentages = 10000
        /\ \A x \in {result[1].win, result[1].tie, result[1].lose} :
              x >= 0 /\ x <= 10000

\* C5 as amended: the three returned percentages sum to 100.00 within one
\* hundredth (99.99, 100.00 or 100.01) and each lies in [0, 100].
C5_SumWithinOneHundredth ==
    pc = "done" =>
        /\ Percentages \in {9999, 10000, 10001}
        /\ \A x \in {result[1].win, result[1].tie, result[1].lose} :
              x >= 0 /\ x <= 10000

\* C5 witness: a call of 3 trials returned with one win and one tie.
C5_ThirdsReturned ==
    /\ pc = "done"
    /\ simulations = 3
    /\ wins = 1
    /\ ties = 1
    /\ Percentages # 10000

\* C6: on evaluations of 7 distinct cards compareHands is reflexive,
\* antisymmetric (compareHands(a,b) = -compareHands(b,a)), transitive
\* (a >= b and b >= c give a >= c) and decided by the category whenever the
\* categories differ.
C6_TotalPreorder ==
    \A a, b, c \in {seats[n].hand : n \in 1..Len(seats)} :
        /\ compareHands(a, a) = 0
        /\ compareHands(a, b) = -compareHands(b, a)
        /\ (compareHands(a, b) >= 0 /\ compareHands(b, c) >= 0)
               => compareHands(a, c) >= 0
        /\ a.rank > b.rank => compareHands(a, b) = 1
        /\ a.rank < b.rank => compareHands(a, b) = -1

\* C7: isStraight is true iff the distinct ranks hold five consecutive
\* values or the wheel {A,2,3,4,5}; As 2s 3h 4d 5c 9h 9d evaluates to at
\* least a straight and Ks As 2h 3d 4c 9h 9d does not evaluate as one.
C7_StraightIffRunOrWheel ==
    /\ straight # <<>> =>
          (straight[1] <=>
              \/ \E r \in 0..(NumRanks - 5) :
                    \A k \in 0..4 : r + k \in Elems(ranks)
              \/ {12, 0, 1, 2, 3} \subseteq Elems(ranks))
    /\ ranks = <<0, 1, 2, 3, 7, 7, 12>> =>
          evaluateHand(parseCards(<<Card("A", "s"), Card("2", "s"),
              Card("3", "h"), Card("4", "d"), Card("5", "c"), Card("9", "h"),
              Card("9", "d")>>)).rank >= STRAIGHT
    /\ ranks = <<0, 1, 2, 7, 7, 11, 12>> =>
          evaluateHand(parseCards(<<Card("K", "s"), Card("A", "s"),
              Card("2", "h"), Card("3", "d"), Card("4", "c"), Card("9", "h"),
              Card("9", "d")>>)).rank
            \notin {STRAIGHT, STRAIGHT_FLUSH, ROYAL_FLUSH}

\* C7 witness: isStraight answered true on ranks holding the wheel and no
\* five consecutive values.
C7_WheelFound ==
    /\ straight = <<TRUE>>
    /\ {12, 0, 1, 2, 3} \subseteq Elems(ranks)
    /\ ~\E r \in 0..(NumRanks - 5) : \A k \in 0..4 : r + k \in Elems(ranks)

\* C8: in every trial of a valid call the subject's hole cards, the
\* opponents' hole cards and the 5 final community cards are pairwise
\* distinct cards of 0..51, the final community cards are the known ones
\* followed by 5 - len(known) dealt ones, and every evaluated hand has 7
\* distinct cards.
C8_DealDistinct ==
    (ValidCall /\ pc \in {"dealt", "compared"}) =>
        LET holes == [k \in 1..(2 * Len(opponentsCards)) |->
                         opponentsCards[(k + 1) \div 2][2 - (k % 2)]]
            all   == myCardsEncoded \o holes \o finalCommunityCards
            known == Len(communityCardsEncoded)
        IN  /\ Len(opponentsCards) = opponentCount
            /\ Len(all) = HoleSize + 2 * opponentCount + BoardSize
            /\ Distinct(all)
            /\ Elems(all) \subseteq 0..(DeckSize - 1)
            /\ Len(finalCommunityCards) = BoardSize
            /\ SubSeq(finalCommunityCards, 1, known) = communityCardsEncoded
            /\ \A k \in (known + 1)..BoardSize :
                  /\ includes(shuffledDeck, finalCommunityCards[k])
                  /\ ~includes(communityCardsEncoded, finalCommunityCards[k])
            /\ Len(myFinalHand) = HandSize
            /\ Distinct(myFinalHand)
            /\ \A n \in 1..Len(opponentsCards) :
                  /\ Len(opponentsCards[n] \o finalCommunityCards) = HandSize
                  /\ Distinct(opponentsCards[n] \o finalCommunityCards)

\* C8 witness: a trial of a valid call with 8 opponents and no known
\* community card, all 21 cards dealt.
C8_FullTableDealt ==
    /\ ValidCall
    /\ pc = "dealt"
    /\ opponentCount = MaxOpponents
    /\ communityCards = <<>>
    /\ Len(finalCommunityCards) = BoardSize

\* C9: the remaining deck (the 52 cards minus the known ones, ascending) and
\* the encoded known cards are the same before and after every trial, and
\* the array a trial deals from holds each card of the remaining deck once.
C9_DeckReadOnly == []DeckIntact /\ [][KnownCardsKept]_vars

\* C9 witness: a second or later trial dealing from a deck in another order
\* than the remaining deck.
C9_ShuffledAgain ==
    /\ pc = "dealt"
    /\ i >= 1
    /\ shuffledDeck # remainingDeck
    /\ Len(shuffledDeck) = Len(remainingDeck)

\* C10: for two players of one board whose hands both evaluate to four of a
\* kind, or both to a full house, compareHands on their full keys agrees
\* with the standard comparison of their best five cards.
C10_FullKeyHarmless ==
    \A m, n \in 1..Len(seats) :
        (/\ seats[m].hand.rank = seats[n].hand.rank
         /\ seats[m].hand.rank \in {FOUR_OF_A_KIND, FULL_HOUSE})
            => compareHands(seats[m].hand, seats[n].hand) =
                   StandardCompare(SeatCards(m), SeatCards(n))

====
